---------------------------- MODULE Spec2Model ----------------------------
(***************************************************************************)
(* Model of the session-authenticated notes backend (src/server/app.py,    *)
(* src/server/models.py).  The state is the two database tables (users,    *)
(* notes), the per-client Flask session, and the wall clock read by the    *)
(* timestamp defaults.  Each route handler is an operator from the state   *)
(* and the request to the response and the state it commits, and one       *)
(* action that commits it.                                                 *)
(*                                                                         *)
(* Text is a sequence of one-character strings, so that str.strip() is     *)
(* computed and not assumed.  A JSON field is <<"absent">>, <<"null">> or  *)
(* <<"str", text>>; a query-string parameter is <<"absent">>, <<"bad">>    *)
(* (not parseable by int()) or <<"int", n>>.                               *)
(***************************************************************************)
EXTENDS Integers, Sequences, FiniteSets

VARIABLES
    users,      \* rows of table "users"
    notes,      \* rows of table "notes"
    session,    \* client -> session["user_id"], NoUser when the key is absent
    clock,      \* the value datetime.utcnow() returns now
    authed,     \* history: client -> the user object of its last successful signup or
                \* login since its last logout, as a set (empty when there is none)
    signups,    \* history: the successful signup requests, as sent
    pending     \* client -> its signup request that has passed the uniqueness
                \* lookup and has not committed yet, as a set (empty when none)

vars == <<users, notes, session, clock, authed, signups, pending>>

-----------------------------------------------------------------------------
(* Bounds of the model *)

MaxNotes == 2
MaxTime == 1

Clients == {"c1", "c2"}

-----------------------------------------------------------------------------
(* Values *)

NoUser == 0

Absent == <<"absent">>
Null == <<"null">>
Str(s) == <<"str", s>>
NotInt == <<"bad">>
Num(n) == <<"int", n>>


-----------------------------------------------------------------------------
(* Python and library helpers *)

IsSpace(ch) == ch = " "

RECURSIVE LStrip(_)
LStrip(s) ==
    IF s = <<>> THEN <<>>
    ELSE IF IsSpace(Head(s)) THEN LStrip(Tail(s)) ELSE s

RECURSIVE RStrip(_)
RStrip(s) ==
    IF s = <<>> THEN <<>>
    ELSE IF IsSpace(s[Len(s)]) THEN RStrip(SubSeq(s, 1, Len(s) - 1)) ELSE s

\* str.strip()
Strip(s) == RStrip(LStrip(s))

\* data.get(key): None for a missing key and for JSON null
Get(v) == IF v = Absent THEN Null ELSE v

\* Python truthiness of data.get(key): None and "" are falsy
Truthy(v) == v[1] = "str" /\ v[2] # <<>>

\* (data.get(key) or "")
OrEmpty(v) == IF Truthy(v) THEN v[2] ELSE <<>>

Max(S) == CHOOSE x \in S : \A y \in S : y <= x

\* Integer primary key assigned by SQLite on insert: largest rowid + 1
NextId(rows) == IF rows = {} THEN 1 ELSE Max({r.id : r \in rows}) + 1

\* bcrypt.generate_password_hash: the digest determines the password it was
\* made from and nothing else verifies against it (the salt is left out)
generate_password_hash(pw) == <<"$2b$", pw>>

check_password_hash(digest, pw) == digest = generate_password_hash(pw)

-----------------------------------------------------------------------------
(* models.User *)

\* User.query.filter_by(username=...).first()
FirstByUsername(username) ==
    LET found == {u \in users : u.username = username}
    IN  IF found = {} THEN {}
        ELSE {CHOOSE u \in found : \A v \in found : u.id <= v.id}

\* User.check_password
check_password(user, pw) ==
    IF user.password_hash = <<>> THEN FALSE
    ELSE check_password_hash(user.password_hash, pw)

\* User.authenticate: the set holding the user, empty for None
authenticate(username, pw) ==
    {u \in FirstByUsername(username) : check_password(u, pw)}

\* User.to_dict
UserDict(u) == [kind |-> "user", id |-> u.id, username |-> u.username]

-----------------------------------------------------------------------------
(* Helper utilities of app.py *)

\* get_current_user: the set holding the user, empty for None
get_current_user(c) ==
    IF session[c] = NoUser THEN {}
    ELSE {u \in users : u.id = session[c]}

EmptyObject == [kind |-> "object"]
NoContent == [kind |-> "empty"]
ErrorBody(msg) == [kind |-> "error", error |-> msg]
ErrorsBody(msgs) == [kind |-> "errors", errors |-> msgs]

\* What a handler returns, and the tables and session as it leaves them
Outcome(status, body, us, ns, ss) ==
    [status |-> status, body |-> body, users |-> us, notes |-> ns, session |-> ss]

\* A handler that returns without a write
Answer(status, body) == Outcome(status, body, users, notes, session)

\* login_required: the answer to a request without a logged-in user
Unauthorized == Answer(401, ErrorBody("Unauthorized"))

-----------------------------------------------------------------------------
(* Auth routes *)

\* signup: username as validated and stored
SignupUsername(u) == Strip(OrEmpty(u))

\* Mutant: a validation that stops at the first rule violated
SignupErrors_first(username, password, confirmation) ==
    IF username = <<>> THEN <<"Username is required.">>
    ELSE IF ~Truthy(password) THEN <<"Password is required.">>
    ELSE IF password # confirmation THEN <<"Passwords do not match.">>
    ELSE IF FirstByUsername(username) # {} THEN <<"Username already taken.">>
    ELSE <<>>

\* signup: the validation and the uniqueness check
SignupErrors(username, password, confirmation) ==
    (IF username = <<>> THEN <<"Username is required.">> ELSE <<>>)
    \o (IF ~Truthy(password) THEN <<"Password is required.">> ELSE <<>>)
    \o (IF password # confirmation THEN <<"Passwords do not match.">> ELSE <<>>)
    \o (IF username # <<>> /\ FirstByUsername(username) # {}
        THEN <<"Username already taken.">> ELSE <<>>)

\* POST /signup
signup(c, u, p, pc) ==
    LET username == SignupUsername(u)
        errors == SignupErrors(username, Get(p), Get(pc))
        user == [id |-> NextId(users), username |-> username,
                 password_hash |-> generate_password_hash(Get(p)[2])]
    IN  IF errors # <<>>
        THEN Answer(422, ErrorsBody(errors))
        ELSE Outcome(201, UserDict(user), users \cup {user}, notes,
                     [session EXCEPT ![c] = user.id])

\* The answer to a request whose handler raised: nothing is committed
InternalServerError == Answer(500, [kind |-> "html"])

\* Mutant: a users table without the UNIQUE constraint on username
UniqueViolation_unchecked(username) == FALSE

\* users.username is UNIQUE: the INSERT of a username some row has raises
\* IntegrityError
UniqueViolation(username) == \E x \in users : x.username = username

\* signup from the INSERT on, for a request that has passed the validation:
\* db.session.commit() is not inside a try, so an IntegrityError leaves the
\* handler and the request is answered 500
signup_commit(c, u, p) ==
    LET username == SignupUsername(u)
        user == [id |-> NextId(users), username |-> username,
                 password_hash |-> generate_password_hash(Get(p)[2])]
    IN  IF UniqueViolation(username)
        THEN InternalServerError
        ELSE Outcome(201, UserDict(user), users \cup {user}, notes,
                     [session EXCEPT ![c] = user.id])

\* login: the username looked up
LoginUsername(u) == Get(u)

\* Mutant: a login that tells a wrong password from an unknown username
login_leaky(c, u, p) ==
    LET found == IF ~Truthy(Get(u)) \/ ~Truthy(Get(p)) THEN {}
                 ELSE authenticate(Get(u)[2], Get(p)[2])
    IN  IF found = {}
        THEN IF Truthy(Get(u)) /\ FirstByUsername(Get(u)[2]) # {}
             THEN Answer(401, ErrorBody("Invalid password"))
             ELSE Answer(401, ErrorBody("Invalid username or password"))
        ELSE Outcome(200, UserDict(CHOOSE x \in found : TRUE), users, notes,
                     [session EXCEPT ![c] = (CHOOSE x \in found : TRUE).id])

\* Mutant: a login that answers 200 and leaves the session as it was
login_keeps_session(c, u, p) ==
    LET found == IF ~Truthy(Get(u)) \/ ~Truthy(Get(p)) THEN {}
                 ELSE authenticate(Get(u)[2], Get(p)[2])
    IN  IF found = {}
        THEN Answer(401, ErrorBody("Invalid username or password"))
        ELSE Answer(200, UserDict(CHOOSE x \in found : TRUE))

\* Mutant: a login that drops the session when the credentials are refused
login_clears_on_failure(c, u, p) ==
    LET found == IF ~Truthy(Get(u)) \/ ~Truthy(Get(p)) THEN {}
                 ELSE authenticate(Get(u)[2], Get(p)[2])
    IN  IF found = {}
        THEN Outcome(401, ErrorBody("Invalid username or password"), users, notes,
                     [session EXCEPT ![c] = NoUser])
        ELSE Outcome(200, UserDict(CHOOSE x \in found : TRUE), users, notes,
                     [session EXCEPT ![c] = (CHOOSE x \in found : TRUE).id])

\* POST /login
login(c, u, p) ==
    LET username == LoginUsername(u)
        password == Get(p)
        found == IF ~Truthy(username) \/ ~Truthy(password) THEN {}
                 ELSE authenticate(username[2], password[2])
    IN  IF found = {}
        THEN Answer(401, ErrorBody("Invalid username or password"))
        ELSE LET user == CHOOSE x \in found : TRUE
             IN  Outcome(200, UserDict(user), users, notes,
                         [session EXCEPT ![c] = user.id])

\* GET /check_session
check_session(c) ==
    LET found == get_current_user(c)
    IN  IF found = {} THEN Answer(200, EmptyObject)
        ELSE Answer(200, UserDict(CHOOSE x \in found : TRUE))

\* Mutant: a logout that leaves session["user_id"] in place
logout_keeps_session(c) == Answer(204, NoContent)

\* Mutant: a logout behind the authorization gate
logout_requires_login(c) ==
    IF get_current_user(c) = {} THEN Unauthorized
    ELSE Outcome(204, NoContent, users, notes, [session EXCEPT ![c] = NoUser])

\* DELETE /logout
logout(c) ==
    Outcome(204, NoContent, users, notes, [session EXCEPT ![c] = NoUser])

-----------------------------------------------------------------------------
(* models.Note *)

\* datetime.isoformat()
isoformat(t) == <<"iso", t>>

\* Note.to_dict
NoteDict(n) ==
    [kind |-> "note", id |-> n.id, title |-> n.title, content |-> n.content,
     created_at |-> isoformat(n.created_at),
     updated_at |-> isoformat(n.updated_at), user_id |-> n.user_id]

\* Mutant: the lookup by id alone, whoever owns the note
FirstNote_any_owner(note_id, user_id) == {n \in notes : n.id = note_id}

\* Note.query.filter_by(id=note_id, user_id=current_user.id).first()
FirstNote(note_id, user_id) ==
    {n \in notes : n.id = note_id /\ n.user_id = user_id}

-----------------------------------------------------------------------------
(* Notes routes *)

MaxPerPage == 50
DefaultPage == 1
DefaultPerPage == 10

\* db.paginate is Flask-SQLAlchemy's (3.x, the release that has db.paginate):
\* with error_out=False it replaces a page below 1 by 1 and a per_page below 1
\* by its own default, 20, whatever default the caller used before the call.
PaginateDefaultPerPage == 20

\* request.args.get(name, default, type=int)
ArgInt(arg, default) == IF arg[1] = "int" THEN arg[2] ELSE default

\* get_notes: per_page as handed to db.paginate
ClampPerPage(per_page) == IF per_page > MaxPerPage THEN MaxPerPage ELSE per_page

\* db.paginate(error_out=False): a page below 1 becomes 1
PaginatePage(page) == IF page < 1 THEN DefaultPage ELSE page

\* db.paginate(error_out=False): a per_page below 1 becomes the library's default
PaginatePerPage(per_page) == IF per_page < 1 THEN PaginateDefaultPerPage ELSE per_page

\* Pagination.pages
Pages(total, per_page) ==
    IF total = 0 THEN 0 ELSE (total + per_page - 1) \div per_page

Perms(S) ==
    {f \in [1..Cardinality(S) -> S] : \A i, j \in 1..Cardinality(S) : i # j => f[i] # f[j]}

\* The orders in which the database may return rows that tie in the ORDER BY
RowOrders == Perms({n.id : n \in notes})

Position(ord, id) == CHOOSE i \in 1..Len(ord) : ord[i] = id

\* Note.query.filter_by(user_id=...).order_by(Note.created_at.desc()): the
\* rows by created_at descending, rows that tie in the order ord gives them
NotesQuery(user_id, ord) ==
    LET owned == {n \in notes : n.user_id = user_id}
        Before(m, n) ==
            \/ m.created_at > n.created_at
            \/ m.created_at = n.created_at /\ Position(ord, m.id) < Position(ord, n.id)
    IN  CHOOSE s \in Perms(owned) : \A i, j \in 1..Len(s) : i < j => Before(s[i], s[j])

\* Mutant: the offset taken one page too far
PageItems_next_page(rows, page, per_page) ==
    IF page * per_page + 1 > Len(rows) THEN <<>>
    ELSE SubSeq(rows, page * per_page + 1,
                IF (page + 1) * per_page < Len(rows) THEN (page + 1) * per_page
                ELSE Len(rows))

\* LIMIT per_page OFFSET (page - 1) * per_page
PageItems(rows, page, per_page) ==
    LET first == (page - 1) * per_page + 1
        lastRow == IF page * per_page < Len(rows) THEN page * per_page ELSE Len(rows)
    IN  IF first > Len(rows) THEN <<>> ELSE SubSeq(rows, first, lastRow)

\* GET /notes
get_notes(c, pageArg, perPageArg, ord) ==
    LET found == get_current_user(c)
    IN  IF found = {} THEN Unauthorized
        ELSE LET current_user == CHOOSE x \in found : TRUE
                 page == PaginatePage(ArgInt(pageArg, DefaultPage))
                 per_page == PaginatePerPage(ClampPerPage(ArgInt(perPageArg, DefaultPerPage)))
                 rows == NotesQuery(current_user.id, ord)
                 items == PageItems(rows, page, per_page)
             IN  Answer(200, [kind |-> "page",
                              items |-> [i \in 1..Len(items) |-> NoteDict(items[i])],
                              page |-> page, per_page |-> per_page,
                              total |-> Len(rows), pages |-> Pages(Len(rows), per_page)])

\* Mutant: the field taken without strip()
NoteField_unstripped(v) == OrEmpty(v)

\* create_note: a field as validated and stored
NoteField(v) == Strip(OrEmpty(v))

\* Mutant: a validation that requires the title alone
NoteErrors_title_only(title, content) ==
    IF title = <<>> THEN <<"Title is required.">> ELSE <<>>

\* create_note: the validation
NoteErrors(title, content) ==
    (IF title = <<>> THEN <<"Title is required.">> ELSE <<>>)
    \o (IF content = <<>> THEN <<"Content is required.">> ELSE <<>>)

\* POST /notes
create_note(c, t, ct) ==
    LET found == get_current_user(c)
    IN  IF found = {} THEN Unauthorized
        ELSE LET current_user == CHOOSE x \in found : TRUE
                 title == NoteField(t)
                 content == NoteField(ct)
                 errors == NoteErrors(title, content)
                 note == [id |-> NextId(notes), title |-> title, content |-> content,
                          created_at |-> clock, updated_at |-> clock,
                          user_id |-> current_user.id]
             IN  IF errors # <<>> THEN Answer(400, ErrorsBody(errors))
                 ELSE Outcome(201, NoteDict(note), users, notes \cup {note}, session)

\* Mutant: a null field clears the stored value
Updated_null_clears(old, v) ==
    IF v[1] = "str" THEN Strip(v[2]) ELSE IF v = Null THEN <<>> ELSE old

\* update_note: a field after the request is applied
Updated(old, v) == IF v[1] = "str" THEN Strip(v[2]) ELSE old

\* Note.updated_at, onupdate: refreshed when the commit writes the row, which
\* the ORM does only for a row with a changed column
OnUpdate(old, new) ==
    IF old.title # new.title \/ old.content # new.content
    THEN [new EXCEPT !.updated_at = clock] ELSE new

\* PATCH /notes/<note_id>
update_note(c, note_id, t, ct) ==
    LET found == get_current_user(c)
    IN  IF found = {} THEN Unauthorized
        ELSE LET current_user == CHOOSE x \in found : TRUE
                 row == FirstNote(note_id, current_user.id)
             IN  IF row = {} THEN Answer(404, ErrorBody("Note not found"))
                 ELSE LET note == CHOOSE x \in row : TRUE
                          set == [note EXCEPT !.title = Updated(note.title, t),
                                              !.content = Updated(note.content, ct)]
                          new == OnUpdate(note, set)
                      IN  Outcome(200, NoteDict(new), users,
                                  (notes \ {note}) \cup {new}, session)

\* Mutant: a delete that answers 403 for a note of another user
delete_note_forbidden(c, note_id) ==
    LET found == get_current_user(c)
    IN  IF found = {} THEN Unauthorized
        ELSE LET current_user == CHOOSE x \in found : TRUE
                 row == FirstNote(note_id, current_user.id)
             IN  IF row # {} THEN Outcome(204, NoContent, users, notes \ row, session)
                 ELSE IF \E n \in notes : n.id = note_id
                      THEN Answer(403, ErrorBody("Forbidden"))
                      ELSE Answer(404, ErrorBody("Note not found"))

\* Mutant: a delete that answers 204 and keeps the row
delete_note_keeps_row(c, note_id) ==
    LET found == get_current_user(c)
    IN  IF found = {} THEN Unauthorized
        ELSE IF FirstNote(note_id, (CHOOSE x \in found : TRUE).id) = {}
             THEN Answer(404, ErrorBody("Note not found"))
             ELSE Answer(204, NoContent)

\* DELETE /notes/<note_id>
delete_note(c, note_id) ==
    LET found == get_current_user(c)
    IN  IF found = {} THEN Unauthorized
        ELSE LET current_user == CHOOSE x \in found : TRUE
                 row == FirstNote(note_id, current_user.id)
             IN  IF row = {} THEN Answer(404, ErrorBody("Note not found"))
                 ELSE Outcome(204, NoContent, users, notes \ row, session)

-----------------------------------------------------------------------------
(* The requests the clients send *)

UsernameInputs ==
    {Absent, Null, Str(<<>>), Str(<<" ">>), Str(<<"a">>), Str(<<" ", "a">>), Str(<<"b">>)}
PasswordInputs == {Absent, Null, Str(<<>>), Str(<<"p">>), Str(<<"q">>)}
TitleInputs == {Absent, Null, Str(<<>>), Str(<<" ">>), Str(<<" ", "t">>)}
ContentInputs == {Absent, Null, Str(<<>>), Str(<<" ">>), Str(<<"c", " ">>)}
PageInputs == {Absent, NotInt, Num(-1), Num(0), Num(1), Num(2), Num(3)}
PerPageInputs ==
    {Absent, NotInt, Num(-1), Num(0), Num(1), Num(2), Num(MaxPerPage),
     Num(MaxPerPage + 1), Num(2 * MaxPerPage)}
NoteIds == 1..(MaxNotes + 1)

\* The requests that drive the state; the properties range over all inputs above
SignupRequests ==
    {<<Str(<<"a">>), Str(<<"p">>), Str(<<"p">>)>>,
     <<Str(<<" ", "a">>), Str(<<"p">>), Str(<<"p">>)>>,
     <<Str(<<"b">>), Str(<<"q">>), Str(<<"q">>)>>,
     <<Str(<<"b">>), Str(<<"q">>), Str(<<"p">>)>>,
     <<Str(<<" ">>), Null, Str(<<"q">>)>>}
LoginRequests ==
    {<<Str(<<"a">>), Str(<<"p">>)>>, <<Str(<<" ", "a">>), Str(<<"p">>)>>,
     <<Str(<<"b">>), Str(<<"q">>)>>, <<Str(<<"b">>), Str(<<"p">>)>>,
     <<Absent, Str(<<"p">>)>>}
TitleRequests == {Absent, Str(<<" ">>), Str(<<" ", "t">>)}
ContentRequests == {Absent, Str(<<>>), Str(<<"c", " ">>)}

-----------------------------------------------------------------------------
(* Actions: a request is served and its outcome committed *)

\* History variables, written from the responses alone: what each client has
\* been told about who it is, and the signup requests that were answered 201
Observe(c, op, req, r) ==
    /\ authed' =
         IF op \in {"signup", "login"} /\ r.status \in {200, 201}
         THEN [authed EXCEPT ![c] = {r.body}]
         ELSE IF op = "logout" THEN [authed EXCEPT ![c] = {}]
         ELSE authed
    /\ signups' =
         IF op = "signup" /\ r.status = 201
         THEN signups \cup {[username |-> req[1], password |-> req[2], user |-> r.body]}
         ELSE signups

Commit(r) ==
    /\ users' = r.users
    /\ notes' = r.notes
    /\ session' = r.session
    /\ UNCHANGED <<clock, pending>>

Signup(c, req) ==
    LET r == signup(c, req[1], req[2], req[3])
    IN  Commit(r) /\ Observe(c, "signup", req, r)

Login(c, req) ==
    LET r == login(c, req[1], req[2])
    IN  Commit(r) /\ Observe(c, "login", req, r)

CheckSession(c) ==
    LET r == check_session(c)
    IN  Commit(r) /\ Observe(c, "check_session", <<>>, r)

Logout(c) ==
    LET r == logout(c)
    IN  Commit(r) /\ Observe(c, "logout", <<>>, r)

GetNotes(c, pageArg, perPageArg, ord) ==
    LET r == get_notes(c, pageArg, perPageArg, ord)
    IN  Commit(r) /\ Observe(c, "get_notes", <<>>, r)

CreateNote(c, t, ct) ==
    LET r == create_note(c, t, ct)
    IN  /\ r.status = 201 => NextId(notes) <= MaxNotes
        /\ Commit(r) /\ Observe(c, "create_note", <<>>, r)

UpdateNote(c, note_id, t, ct) ==
    LET r == update_note(c, note_id, t, ct)
    IN  Commit(r) /\ Observe(c, "update_note", <<>>, r)

DeleteNote(c, note_id) ==
    LET r == delete_note(c, note_id)
    IN  Commit(r) /\ Observe(c, "delete_note", <<>>, r)

\* Time passes: datetime.utcnow() returns a later value
Tick ==
    /\ clock < MaxTime
    /\ clock' = clock + 1
    /\ UNCHANGED <<users, notes, session, authed, signups, pending>>

-----------------------------------------------------------------------------

Init ==
    /\ users = {}
    /\ notes = {}
    /\ session = [c \in Clients |-> NoUser]
    /\ clock = 0
    /\ authed = [c \in Clients |-> {}]
    /\ signups = {}
    /\ pending = [c \in Clients |-> {}]

Next ==
    \/ \E c \in Clients, req \in SignupRequests : Signup(c, req)
    \/ \E c \in Clients, req \in LoginRequests : Login(c, req)
    \/ \E c \in Clients : CheckSession(c)
    \/ \E c \in Clients : Logout(c)
    \/ \E c \in Clients, ord \in RowOrders : GetNotes(c, Absent, Num(1), ord)
    \/ \E c \in Clients, t \in TitleRequests, ct \in ContentRequests : CreateNote(c, t, ct)
    \/ \E c \in Clients, id \in 1..MaxNotes, t \in TitleRequests, ct \in ContentRequests :
          UpdateNote(c, id, t, ct)
    \/ \E c \in Clients, id \in 1..MaxNotes : DeleteNote(c, id)
    \/ Tick

Spec == Init /\ [][Next]_vars

-----------------------------------------------------------------------------
(* Signups served concurrently: the handler runs in two steps, the         *)
(* validation with the uniqueness lookup and the commit, and the steps of  *)
(* different requests interleave.                                          *)

\* POST /signup up to the uniqueness lookup: answered 422, or ready to commit
SignupBegin(c, req) ==
    /\ pending[c] = {}
    /\ pending' =
         IF SignupErrors(SignupUsername(req[1]), Get(req[2]), Get(req[3])) # <<>>
         THEN pending
         ELSE [pending EXCEPT ![c] = {req}]
    /\ UNCHANGED <<users, notes, session, clock, authed, signups>>

\* POST /signup from the INSERT to the response
SignupEnd(c) ==
    /\ pending[c] # {}
    /\ LET req == CHOOSE x \in pending[c] : TRUE
           r == signup_commit(c, req[1], req[2])
       IN  /\ users' = r.users
           /\ notes' = r.notes
           /\ session' = r.session
           /\ Observe(c, "signup", req, r)
    /\ pending' = [pending EXCEPT ![c] = {}]
    /\ UNCHANGED clock

NextRace ==
    \/ \E c \in Clients, req \in SignupRequests : SignupBegin(c, req)
    \/ \E c \in Clients : SignupEnd(c)
    \/ \E c \in Clients, req \in LoginRequests : Login(c, req)
    \/ \E c \in Clients : CheckSession(c)
    \/ \E c \in Clients : Logout(c)

SpecRace == Init /\ [][NextRace]_vars

-----------------------------------------------------------------------------
(* Properties *)

Text(v) == IF v[1] = "str" THEN v[2] ELSE <<>>

UsernameUsed(name) == \E x \in users : x.username = name

\* C1 (as claimed): a signup with a non-empty username (after trimming), a
\* non-empty password equal to its confirmation and a username not yet used
\* answers 201, and every later login that sends the username and password
\* that were sent to a successful signup answers 200 with that user's
\* {id, username}.
C1_SignupThenLogin ==
    /\ \A c \in Clients, u \in UsernameInputs, p \in PasswordInputs, pc \in PasswordInputs :
          (/\ Strip(Text(u)) # <<>>
           /\ Text(p) # <<>>
           /\ Get(p) = Get(pc)
           /\ ~UsernameUsed(Strip(Text(u))))
          => signup(c, u, p, pc).status = 201
    /\ \A s \in signups, c \in Clients :
          LET r == login(c, s.username, s.password)
          IN  r.status = 200 /\ r.body = s.user

\* C2: GET /check_session answers 200, with {} for a client that has made no
\* successful signup or login since its last logout, and otherwise with the
\* {id, username} of the user of its most recent successful signup or login.
C2_CheckSession ==
    \A c \in Clients :
        LET r == check_session(c)
        IN  /\ r.status = 200
            /\ authed[c] = {} => r.body = EmptyObject
            /\ authed[c] # {} => r.body \in authed[c]

\* C2 witness: one client has logged in over another user's session of its
\* own, the other client has logged out, and check_session tells them apart.
C2_Witness ==
    /\ Cardinality(users) = 2
    /\ authed["c1"] # {} /\ check_session("c1").body.id = 1
    /\ authed["c2"] = {} /\ check_session("c2").body = EmptyObject
    /\ \A s \in signups : s.user.id = 2 => s.user \notin authed["c1"]
\* The id of the user a client is logged in as, by what the client has seen
AuthedIds(c) == {a.id : a \in authed[c]}

\* A step changes the title or content of note n, or removes it
Touched(n) ==
    \A m \in notes' : m.id = n.id =>
        m.title # n.title \/ m.content # n.content \/ m.user_id # n.user_id

C3_OwnerOnlyStep ==
    \A n \in notes :
        Touched(n) =>
            \E c \in Clients :
                /\ n.user_id \in AuthedIds(c)
                /\ \/ \E t \in TitleInputs, ct \in ContentInputs : UpdateNote(c, n.id, t, ct)
                   \/ DeleteNote(c, n.id)

C3_ReturnedAreOwn ==
    \A c \in Clients :
        /\ \A p \in PageInputs, k \in PerPageInputs, ord \in RowOrders :
              LET r == get_notes(c, p, k, ord)
              IN  r.status = 200 =>
                      \A i \in 1..Len(r.body.items) : r.body.items[i].user_id \in AuthedIds(c)
        /\ \A t \in TitleInputs, ct \in ContentInputs :
              LET r == create_note(c, t, ct)
              IN  r.status = 201 => r.body.user_id \in AuthedIds(c)
        /\ \A id \in NoteIds, t \in TitleInputs, ct \in ContentInputs :
              LET r == update_note(c, id, t, ct)
              IN  r.status = 200 => r.body.user_id \in AuthedIds(c)

\* C3: a note's title and content change, and a note is removed, only by a
\* PATCH or DELETE /notes/{id} of a client logged in as the note's owner; and
\* every note that GET /notes, POST /notes or PATCH /notes/{id} returns has
\* the user_id of the user the requesting client is logged in as.
C3_OwnerOnly == [][C3_OwnerOnlyStep]_vars /\ []C3_ReturnedAreOwn

\* C3 witness: two users own a note each, one of the notes has been updated
\* by its owner, and a client is logged in as the other user.
C3_Witness ==
    \E n \in notes, m \in notes, c \in Clients :
        /\ n.user_id # m.user_id
        /\ n.updated_at > n.created_at
        /\ m.user_id \in AuthedIds(c)
        /\ update_note(c, n.id, Str(<<"t">>), Absent).status = 404

\* The note ids that belong to a user other than the one c is logged in as
ForeignIds(c) == {n.id : n \in {m \in notes : m.user_id \notin AuthedIds(c)}}

\* The note ids for which no note exists
FreeIds == {id \in NoteIds : \A n \in notes : n.id # id}

NotFound == Answer(404, ErrorBody("Note not found"))

\* C4: for a logged-in client, PATCH and DELETE /notes/{id} answer an id of
\* another user's note exactly as they answer an id no note has: 404 with
\* {"error": "Note not found"}, and nothing written.
C4_ForeignAsMissing ==
    \A c \in Clients :
        authed[c] # {} =>
            \A id \in ForeignIds(c) \cup FreeIds :
                /\ delete_note(c, id) = NotFound
                /\ \A t \in TitleInputs, ct \in ContentInputs :
                      update_note(c, id, t, ct) = NotFound

\* C4 witness: a logged-in client, a note of another user and an unused id.
C4_Witness ==
    \E c \in Clients :
        /\ authed[c] # {}
        /\ ForeignIds(c) # {}
        /\ FreeIds # {}
        /\ \E id \in ForeignIds(c) : delete_note(c, id).status = 404

NotesAnswers(c) ==
    {get_notes(c, p, k, ord) : p \in PageInputs, k \in PerPageInputs, ord \in RowOrders}
    \cup {create_note(c, t, ct) : t \in TitleInputs, ct \in ContentInputs}
    \cup {update_note(c, id, t, ct) : id \in NoteIds, t \in TitleInputs, ct \in ContentInputs}
    \cup {delete_note(c, id) : id \in NoteIds}

\* C5: while a client is anonymous (it never logged in, or logged out), each
\* of GET /notes, POST /notes, PATCH /notes/{id} and DELETE /notes/{id}
\* answers 401 with {"error": "Unauthorized"}, whatever the request holds.
C5_AnonymousUnauthorized ==
    \A c \in Clients :
        authed[c] = {} =>
            \A r \in NotesAnswers(c) :
                r.status = 401 /\ r.body = ErrorBody("Unauthorized")

\* C5 witness: every client has logged out after notes were created, and a
\* request for an existing note is answered 401.
C5_Witness ==
    /\ notes # {}
    /\ \A c \in Clients : authed[c] = {}
    /\ \E n \in notes : delete_note("c1", n.id).status = 401

\* C6: a login with an existing username and a wrong password, and a login
\* with a username no user has, answer the same: 401 with
\* {"error": "Invalid username or password"}.
C6_LoginFailuresAlike ==
    \A c \in Clients, u \in UsernameInputs, p \in PasswordInputs :
        (/\ Text(p) # <<>>
         /\ \/ Text(u) # <<>> /\ ~UsernameUsed(Text(u))
            \/ \E x \in users :
                  x.username = Text(u) /\ \A s \in signups : s.user.id = x.id => s.password # p)
        => login(c, u, p) = Answer(401, ErrorBody("Invalid username or password"))

\* C6 witness: one username exists and another does not; a wrong password
\* for the first and any password for the second are both refused.
C6_Witness ==
    /\ UsernameUsed(<<"a">>) /\ ~UsernameUsed(<<"b">>)
    /\ login("c2", Str(<<"a">>), Str(<<"q">>)).status = 401
    /\ login("c2", Str(<<"b">>), Str(<<"q">>)).status = 401
    /\ login("c2", Str(<<"a">>), Str(<<"p">>)).status = 200

\* The messages of the signup rules a request violates, in the documented order
ViolatedSignupRules(u, p, pc) ==
    LET name == Strip(Text(u))
        Msg(violated, msg) == IF violated THEN <<msg>> ELSE <<>>
    IN  Msg(name = <<>>, "Username is required.")
        \o Msg(Text(p) = <<>>, "Password is required.")
        \o Msg(Get(p) # Get(pc), "Passwords do not match.")
        \o Msg(name # <<>> /\ UsernameUsed(name), "Username already taken.")

\* C7: POST /signup answers 422 exactly when a rule is violated, and then
\* lists the message of every violated rule in the order required-username,
\* required-password, password-mismatch, username-taken; a password that
\* differs from its confirmation always yields 422 with the mismatch message.
C7_SignupErrors ==
    \A c \in Clients, u \in UsernameInputs, p \in PasswordInputs, pc \in PasswordInputs :
        LET r == signup(c, u, p, pc)
            violated == ViolatedSignupRules(u, p, pc)
        IN  /\ r.status = 422 <=> violated # <<>>
            /\ r.status = 422 => r.body = ErrorsBody(violated)
            /\ r.status # 422 => r.status = 201
            /\ Get(p) # Get(pc) =>
                  /\ r.status = 422
                  /\ \E i \in 1..Len(r.body.errors) :
                        r.body.errors[i] = "Passwords do not match."

\* C7 witness: with a username taken, one request violates three rules and
\* is answered with the three messages, and another violates the three
\* rules that need no stored user.
C7_Witness ==
    /\ UsernameUsed(<<"a">>)
    /\ signup("c1", Str(<<" ", "a">>), Null, Str(<<"q">>)).body.errors =
          <<"Password is required.", "Passwords do not match.", "Username already taken.">>
    /\ signup("c1", Str(<<" ">>), Str(<<>>), Str(<<"q">>)).body.errors =
          <<"Username is required.", "Password is required.", "Passwords do not match.">>

\* C8: for a logged-in client, POST /notes answers 400 exactly when the title
\* or the content is missing, null or empty after trimming, listing
\* "Title is required." iff the trimmed title is empty and
\* "Content is required." iff the trimmed content is empty; otherwise it
\* answers 201 and stores exactly one new note, owned by the client's user.
C8_CreateNote ==
    \A c \in Clients :
        authed[c] # {} =>
            \A t \in TitleInputs, ct \in ContentInputs :
                LET r == create_note(c, t, ct)
                    noTitle == Strip(Text(t)) = <<>>
                    noContent == Strip(Text(ct)) = <<>>
                    Has(msg) == \E i \in 1..Len(r.body.errors) : r.body.errors[i] = msg
                IN  /\ r.status = 400 <=> noTitle \/ noContent
                    /\ r.status = 400 =>
                          /\ Has("Title is required.") <=> noTitle
                          /\ Has("Content is required.") <=> noContent
                          /\ r.notes = notes
                    /\ r.status # 400 =>
                          /\ r.status = 201
                          /\ notes \subseteq r.notes
                          /\ Cardinality(r.notes \ notes) = 1
                          /\ \A n \in r.notes \ notes :
                                /\ n.user_id \in AuthedIds(c)
                                /\ \A m \in notes : m.id # n.id

\* C8 witness: a logged-in client owns a note it created, and its next
\* requests are answered 400 for a blank title and 201 for a valid note.
C8_Witness ==
    \E c \in Clients, n \in notes :
        /\ n.user_id \in AuthedIds(c)
        /\ create_note(c, Str(<<" ">>), Str(<<"c", " ">>)).status = 400
        /\ create_note(c, Str(<<" ", "t">>), Str(<<"c", " ">>)).status = 201

ValidPositive(arg) == arg[1] = "int" /\ arg[2] >= 1

\* C9 (as claimed): for a logged-in client, GET /notes answers with per_page
\* and a number of items of at most 50; a per_page above 50 gives 50, a
\* per_page that is absent or no valid positive integer gives 10, and a page
\* that is absent or no valid positive integer gives 1.
C9_PerPage ==
    \A c \in Clients :
        authed[c] # {} =>
            \A p \in PageInputs, k \in PerPageInputs, ord \in RowOrders :
                LET r == get_notes(c, p, k, ord)
                IN  /\ r.status = 200
                    /\ r.body.per_page <= MaxPerPage
                    /\ Len(r.body.items) <= MaxPerPage
                    /\ (ValidPositive(k) /\ k[2] > MaxPerPage) => r.body.per_page = MaxPerPage
                    /\ ~ValidPositive(k) => r.body.per_page = 10
                    /\ ~ValidPositive(p) => r.body.page = 1

\* The notes of a user by created_at descending, ties in insertion order
StableRows(user_id) ==
    LET owned == {n \in notes : n.user_id = user_id}
    IN  CHOOSE s \in Perms(owned) :
            \A i, j \in 1..Len(s) :
                i < j => \/ s[i].created_at > s[j].created_at
                         \/ s[i].created_at = s[j].created_at /\ s[i].id < s[j].id

\* C10 (as claimed): for a logged-in user U, GET /notes answering page p and
\* per_page n returns as items exactly positions (p-1)*n+1 .. p*n of U's
\* notes sorted by created_at descending with ties in insertion order (none
\* past the last page), total = the number of U's notes, and
\* pages = ceiling(total / n), 0 when total is 0.
C10_PageOfStableOrder ==
    \A c \in Clients :
        \A a \in authed[c] :
            \A p \in PageInputs, k \in PerPageInputs, ord \in RowOrders :
                LET r == get_notes(c, p, k, ord)
                    rows == StableRows(a.id)
                    offset == (r.body.page - 1) * r.body.per_page
                    left == Len(rows) - offset
                    count == IF left < 0 THEN 0
                             ELSE IF left < r.body.per_page THEN left ELSE r.body.per_page
                IN  /\ r.status = 200
                    /\ r.body.items = [i \in 1..count |-> NoteDict(rows[offset + i])]
                    /\ r.body.total = Len(rows)
                    /\ r.body.pages = IF Len(rows) = 0 THEN 0
                                      ELSE ((Len(rows) - 1) \div r.body.per_page) + 1

\* The stored note with an id, as a set
NoteWithId(ns, id) == {n \in ns : n.id = id}

\* C11: a PATCH /notes/{id} answered 200 sets each of title and content that
\* is present and non-null to its trimmed value and keeps a field that is
\* absent or null; the note's id, user_id and created_at stay as they were,
\* and no other note changes.
C11_PartialUpdate ==
    \A c \in Clients, id \in NoteIds, t \in TitleInputs, ct \in ContentInputs :
        LET r == update_note(c, id, t, ct)
        IN  r.status = 200 =>
                \E old \in NoteWithId(notes, id), new \in NoteWithId(r.notes, id) :
                    /\ new.title = IF t[1] = "str" THEN Strip(t[2]) ELSE old.title
                    /\ new.content = IF ct[1] = "str" THEN Strip(ct[2]) ELSE old.content
                    /\ new.id = old.id
                    /\ new.user_id = old.user_id
                    /\ new.created_at = old.created_at
                    /\ r.notes \ {new} = notes \ {old}
                    /\ r.body = NoteDict(new)

\* C11 witness: a note whose content was updated while its title was kept,
\* and a request with a null title and a new content answered 200.
C11_Witness ==
    \E c \in Clients, n \in notes :
        /\ n.title = <<"t">> /\ n.content = <<>>
        /\ n.updated_at > n.created_at
        /\ update_note(c, n.id, Null, Str(<<"c", " ">>)).status = 200

\* C12 (as claimed): a PATCH /notes/{id} answered 200 leaves the note with
\* updated_at equal to the time of the request, whatever the body holds, so
\* that it is later than before whenever time has passed since.
C12_UpdatedAtRefreshed ==
    \A c \in Clients, id \in NoteIds, t \in TitleInputs, ct \in ContentInputs :
        LET r == update_note(c, id, t, ct)
        IN  r.status = 200 =>
                \A old \in NoteWithId(notes, id), new \in NoteWithId(r.notes, id) :
                    /\ new.updated_at = clock
                    /\ r.body.updated_at = isoformat(clock)
                    /\ clock > old.updated_at => new.updated_at > old.updated_at

\* The pages and page sizes asked for after a create
ListPages == {Absent, Num(1), Num(2)}
ListSizes == {Absent, Num(1), Num(2)}

\* The items of a GET /notes response, as a set
Items(body) == {body.items[i] : i \in 1..Len(body.items)}

C13_RoundTripStep ==
    notes' # notes =>
    \A c \in Clients, t \in TitleInputs, ct \in ContentInputs :
        (create_note(c, t, ct).status = 201 /\ CreateNote(c, t, ct)) =>
            LET made == create_note(c, t, ct).body
            IN  /\ made.title = Strip(Text(t))
                /\ made.content = Strip(Text(ct))
                /\ made.user_id \in AuthedIds(c)
                /\ \A ord \in RowOrders', p \in ListPages, k \in ListSizes :
                      LET g == get_notes(c, p, k, ord)'
                      IN  /\ g.status = 200
                          /\ \A x \in Items(g.body) : x.id = made.id => x = made
                          /\ (p # Num(2) /\ k = Absent) => made \in Items(g.body)

\* C13: once POST /notes with title t and content c is answered 201, a
\* GET /notes by the same client that covers the note returns an item equal
\* to the note object the create returned, with title t trimmed, content c
\* trimmed and the user's id; the first page of the default size covers it.
C13_RoundTrip == [][C13_RoundTripStep]_vars

\* C13 witness: a logged-in client lists a note it created and has not updated.
C13_Witness ==
    \E c \in Clients, n \in notes, ord \in RowOrders :
        /\ n.user_id \in AuthedIds(c)
        /\ n.title = <<"t">> /\ n.content = <<"c">>
        /\ Cardinality(notes) = 2
        /\ NoteDict(n) \in Items(get_notes(c, Absent, Absent, ord).body)

\* A DELETE answered 204 removes the client's own note with that id, and
\* no other note
C14_DeleteRemoves ==
    \A c \in Clients, id \in NoteIds :
        LET r == delete_note(c, id)
        IN  r.status = 204 =>
                /\ NoteWithId(notes, id) # {}
                /\ \A n \in NoteWithId(notes, id) : n.user_id \in AuthedIds(c)
                /\ r.notes = notes \ NoteWithId(notes, id)
                /\ NoteWithId(r.notes, id) = {}

\* An id no note has is taken again only by a POST /notes answered 201
C14_DeleteStep ==
    notes' # notes =>
    \A id \in NoteIds :
        (NoteWithId(notes, id) = {} /\ NoteWithId(notes', id) # {}) =>
            \E c \in Clients, t \in TitleInputs, ct \in ContentInputs :
                create_note(c, t, ct).status = 201 /\ CreateNote(c, t, ct)

C14_GoneIsGone ==
    \A c \in Clients, id \in FreeIds :
        /\ authed[c] # {} =>
              /\ delete_note(c, id) = NotFound
              /\ \A t \in TitleInputs, ct \in ContentInputs : update_note(c, id, t, ct) = NotFound
        /\ \A p \in PageInputs, k \in PerPageInputs, ord \in RowOrders :
              LET g == get_notes(c, p, k, ord)
              IN  g.status = 200 => \A i \in 1..Len(g.body.items) : g.body.items[i].id # id

\* C14: a DELETE /notes/{id} by the owner answered 204 removes that note and
\* no other; from then on, until a POST /notes is answered 201, no note has
\* that id, so no GET /notes of any user lists it and PATCH and DELETE on the
\* id answer 404.
C14_DeleteIsPermanent ==
    [](C14_DeleteRemoves /\ C14_GoneIsGone) /\ [][C14_DeleteStep]_vars

\* C14 witness: the first note was deleted and a later one is still stored;
\* its former owner is logged in and is answered 404 for the first id.
C14_Witness ==
    \E c \in Clients, n \in notes :
        /\ n.id = 2 /\ 1 \in FreeIds
        /\ n.user_id \in AuthedIds(c)
        /\ delete_note(c, 1).status = 404

\* A pending signup whose username a row already has: another request with
\* the same username committed after this one's lookup
Lost(c) == {req \in pending[c] : UsernameUsed(SignupUsername(req[1]))}

\* C15 (as claimed): of two POST /signup with the same valid username that
\* both pass the uniqueness lookup before either commits, the one that
\* commits first creates the user and is answered 201, and the other is
\* answered 422 with "Username already taken." and creates nothing.
C15_RaceAnswered422 ==
    \A c \in Clients : \A req \in pending[c] :
        LET r == signup_commit(c, req[1], req[2])
        IN  IF req \in Lost(c)
            THEN /\ r.status = 422
                 /\ r.body = ErrorsBody(<<"Username already taken.">>)
                 /\ r.users = users
            ELSE /\ r.status = 201
                 /\ r.body.username = SignupUsername(req[1])

\* No two rows of users have the same username, and each is stored trimmed
C17_UniqueUsernames ==
    /\ \A x, y \in users : x.username = y.username => x = y
    /\ \A x \in users : x.username = Strip(x.username) /\ x.username # <<>>

\* A step keeps every row of users, with its username
C17_UsernameKept ==
    \A x \in users : \E y \in users' : y.id = x.id /\ y.username = x.username

\* C17: in every state reached by signups served in any order and any
\* interleaving of their lookups and commits, no two stored users have the
\* same trimmed username, and no step changes the username of a stored user.
C17_Usernames == []C17_UniqueUsernames /\ [][C17_UsernameKept]_vars

\* C17 witness: two users are stored, one client was answered 201 for a
\* username and another client's signup with that username, which passed
\* the lookup before the commit, is about to commit.
C17_Witness ==
    \E c, d \in Clients :
        /\ c # d
        /\ Lost(c) # {}
        /\ \E req \in Lost(c), a \in authed[d] : a.username = SignupUsername(req[1])
        /\ Cardinality(users) = 2

\* C16 (as claimed): every stored note has a title and a content that are
\* non-empty after trimming whitespace.
C16_NotesNonEmpty ==
    \A n \in notes : Strip(n.title) # <<>> /\ Strip(n.content) # <<>>

\* Every stored title and content is trimmed
C16_StoredTrimmed ==
    \A n \in notes : n.title = Strip(n.title) /\ n.content = Strip(n.content)

\* The step is a PATCH /notes/{id} answered 200 that sets the title to the
\* empty text
EmptiesTitle(id) ==
    \E c \in Clients, t \in TitleInputs, ct \in ContentInputs :
        /\ t[1] = "str" /\ Strip(t[2]) = <<>>
        /\ update_note(c, id, t, ct).status = 200
        /\ UpdateNote(c, id, t, ct)

\* The step is a PATCH /notes/{id} answered 200 that sets the content to the
\* empty text
EmptiesContent(id) ==
    \E c \in Clients, t \in TitleInputs, ct \in ContentInputs :
        /\ ct[1] = "str" /\ Strip(ct[2]) = <<>>
        /\ update_note(c, id, t, ct).status = 200
        /\ UpdateNote(c, id, t, ct)

\* A field that is empty after a step was empty before it in the same note,
\* or the step is a PATCH that emptied it
C16_EmptiedByPatchStep ==
    notes' # notes =>
    \A n \in notes' :
        /\ n.title = <<>> =>
              \/ \E o \in NoteWithId(notes, n.id) : o.title = <<>>
              \/ EmptiesTitle(n.id)
        /\ n.content = <<>> =>
              \/ \E o \in NoteWithId(notes, n.id) : o.content = <<>>
              \/ EmptiesContent(n.id)

\* C16 (amended): every stored title and content is trimmed; a note is
\* created with both non-empty, and a stored title or content is empty only
\* from a PATCH /notes/{id} answered 200 whose body gave that field a string
\* that is empty after trimming.
C16_EmptyOnlyByPatch == []C16_StoredTrimmed /\ [][C16_EmptiedByPatchStep]_vars

\* C16 witness: a stored note with a non-empty title whose content a PATCH
\* has emptied.
C16_Witness ==
    \E n \in notes :
        /\ n.title # <<>> /\ n.content = <<>>
        /\ n.updated_at > n.created_at

\* DELETE /logout answers 204 with no body, leaves the client anonymous and
\* every other session, every user and every note as they were
C18_LogoutOutcome ==
    \A c \in Clients :
        LET r == logout(c)
        IN  /\ r.status = 204
            /\ r.body = NoContent
            /\ r.session[c] = NoUser
            /\ \A d \in Clients \ {c} : r.session[d] = session[d]
            /\ r.users = users
            /\ r.notes = notes
            /\ session[c] = NoUser => r.session = session

\* After a logout step the client is anonymous, and a second logout is
\* answered 204 and leaves the state the first one left
C18_LogoutTwiceStep ==
    \A c \in Clients :
        Logout(c) =>
            /\ users' = users /\ notes' = notes
            /\ get_current_user(c)' = {}
            /\ check_session(c)'.body = EmptyObject
            /\ logout(c)'.status = 204
            /\ logout(c)'.session = session'
            /\ logout(c)'.users = users'
            /\ logout(c)'.notes = notes'

\* C18: DELETE /logout always answers 204 and leaves the client's session
\* anonymous, from an authenticated and from an anonymous session alike; a
\* second logout leaves the state of the first, and no logout changes a
\* stored user or note.
C18_LogoutIdempotent == []C18_LogoutOutcome /\ [][C18_LogoutTwiceStep]_vars

\* C18 witness: users and notes are stored and every client is anonymous, so
\* the clients that signed up have logged out; a further logout answers 204.
C18_Witness ==
    /\ users # {} /\ notes # {}
    /\ \A c \in Clients : session[c] = NoUser /\ authed[c] = {}
    /\ logout("c1").status = 204

\* C19: a request answered 422 by signup, 401 by login or by the
\* authorization gate, 400 by note creation or 404 by note update or delete
\* commits the users, the notes and every session exactly as they were, so a
\* logged-in client whose login or signup fails stays logged in as the same
\* user.
C19_ErrorsChangeNothing ==
    \A c \in Clients :
        \A r \in {signup(c, u, p, pc) :
                      u \in UsernameInputs, p \in PasswordInputs, pc \in PasswordInputs}
                 \cup {login(c, u, p) : u \in UsernameInputs, p \in PasswordInputs}
                 \cup NotesAnswers(c) :
            r.status \in {400, 401, 404, 422} =>
                /\ r.users = users
                /\ r.notes = notes
                /\ r.session = session

\* C19 witness: a logged-in client with a stored note is refused a login
\* (401), a signup (422), a note creation (400) and a note update (404).
C19_Witness ==
    \E c \in Clients :
        /\ get_current_user(c) # {}
        /\ \E n \in notes : n.user_id = session[c]
        /\ login(c, Str(<<"a">>), Str(<<"q">>)).status = 401
        /\ signup(c, Str(<<"a">>), Str(<<"p">>), Str(<<"p">>)).status = 422
        /\ create_note(c, Str(<<" ">>), Absent).status = 400
        /\ \E id \in FreeIds : update_note(c, id, Absent, Absent).status = 404

=============================================================================
